---- MODULE Spec2Model ----
(***************************************************************************)
(* Simplest P.A.L. (PDB Automation Layer), src/simplest_pal.py.            *)
(*                                                                         *)
(* The harness object PdbAutomation (output buffer, session flag, log and  *)
(* console sinks, readline classifier) and the driver loop of              *)
(* simplest_pal_main.  The target script and the debugger are the          *)
(* environment: during an attempt they write text, ask for a line, enter   *)
(* and leave the hooked set_trace wrapper, and end the attempt by          *)
(* returning or raising.                                                   *)
(*                                                                         *)
(* Text is a sequence of tokens.  The marker literals are single tokens,   *)
(* "\n" is the line break and " " is white space; a command is a sequence  *)
(* of characters ending (or not) with "\n".                                *)
(***************************************************************************)
EXTENDS Naturals, Sequences, FiniteSets

VARIABLES
    quit_on_stop,            \* self.quit_on_stop
    output_buffer,           \* self.output_buffer: io.StringIO, [content, pos]
    is_debugging,            \* self.is_debugging (threading.Event)
    sys_stdout,              \* who owns sys.stdout / sys.stderr
    log,                     \* contents of the log file, one entry per write
    console,                 \* what original_stdout received, one entry per write
    log_ok,                  \* the log file can be appended to
    rl_state,                \* position of readline: idle, waiting, returned, raised
    rl_ret,                  \* the value readline returned last
    current_buffered_output, \* readline's local: the text it drained
    user_command,            \* readline's local: the line read from original_stdin
    stdin_reads,             \* calls of original_stdin.readline() in this readline
    remaining_output,        \* the driver's local: what get_output returned
    written,                 \* history: every text passed to write, concatenated
    drained,                 \* history: every drain's result, concatenated
    drains,                  \* history: number of drains
    readlines,               \* history: number of readline invocations
    pc,                      \* position of simplest_pal_main
    script_completed,        \* simplest_pal_main's local
    script_force_quit,       \* simplest_pal_main's local
    outcome,                 \* the outcome the driver reported for the last attempt
    attempts,                \* number of runpy.run_path calls
    depth,                   \* set_trace_with_hooks frames on the stack
    last_end,                \* how the last attempt ended, and the flag then
    escaped,                 \* an exception left simplest_pal_main
    ops                      \* number of environment operations so far

hvars == <<quit_on_stop, output_buffer, is_debugging, sys_stdout, log, console,
           log_ok, rl_state, rl_ret, current_buffered_output, user_command,
           stdin_reads, remaining_output, written, drained, drains, readlines>>
dvars == <<pc, script_completed, script_force_quit, outcome, attempts, depth,
           last_end, escaped, ops>>
vars == <<hvars, dvars>>

\* ---------------------------------------------------------------- bounds

MaxLen == 4        \* longest buffered text the classifier is applied to
MaxLine == 1       \* longest line body typed on the real input channel
MaxOps == 3        \* environment operations in a run
MaxAttempts == 2   \* attempts of the driver loop
MaxDepth == 1      \* nested set_trace_with_hooks frames

BoundedSeq(S, n) == UNION {[1..k -> S] : k \in 0..n}

\* ---------------------------------------------------------------- text

AI_INTERACTION == <<"AI">>    \* "AI Interaction Point"
CODE_CONTEXT == <<"CC">>      \* "Current Code Context (for AI reference)"
HUMAN_CONSULT == <<"HC">>     \* "Human Consultation Requested"
PROMPT == <<"P">>             \* "(Pdb)"
FRAME_MARK == <<">">>         \* '>'
SELF_FILE == <<"F">>          \* os.path.basename(__file__)
NL == "\n"
WhiteSpace == {" ", "\n"}

Tok == {"AI", "CC", "HC", "P", ">", "F", "\n", " "}

CMD_C == <<"c", "\n">>
CMD_Q == <<"q", "\n">>
CMD_U == <<"u", "\n">>
EMPTY == <<>>

\* m in s
Contains(m, s) ==
    \E i \in 1..(Len(s) + 1) :
        /\ i + Len(m) - 1 <= Len(s)
        /\ SubSeq(s, i, i + Len(m) - 1) = m

\* s.startswith(m)
StartsWith(s, m) == Len(m) <= Len(s) /\ SubSeq(s, 1, Len(m)) = m

\* s.strip()
RECURSIVE LStrip(_)
LStrip(s) ==
    IF s # <<>> /\ Head(s) \in WhiteSpace THEN LStrip(Tail(s)) ELSE s

RECURSIVE RStrip(_)
RStrip(s) ==
    IF s # <<>> /\ s[Len(s)] \in WhiteSpace
    THEN RStrip(SubSeq(s, 1, Len(s) - 1)) ELSE s

Strip(s) == RStrip(LStrip(s))

\* s.splitlines()
RECURSIVE SplitLines(_)
SplitLines(s) ==
    IF s = <<>> THEN <<>>
    ELSE IF \E i \in 1..Len(s) : s[i] = NL
    THEN LET i == CHOOSE j \in 1..Len(s) :
                      s[j] = NL /\ \A k \in 1..(j - 1) : s[k] # NL
         IN <<SubSeq(s, 1, i - 1)>> \o SplitLines(SubSeq(s, i + 1, Len(s)))
    ELSE <<s>>

NewlineTerminated(s) == s # <<>> /\ s[Len(s)] = NL

\* ---------------------------------------------------------------- io.StringIO

SIO_new == [content |-> <<>>, pos |-> 0]

SIO_getvalue(b) == b.content

\* write at the position, padding with NUL when the position is past the end
SIO_write(b, s) ==
    LET padded == b.content \o [i \in 1..(b.pos - Len(b.content)) |-> "\\0"]
        before == SubSeq(padded, 1, b.pos)
        after == SubSeq(padded, b.pos + Len(s) + 1, Len(padded))
    IN [content |-> before \o s \o after, pos |-> b.pos + Len(s)]

SIO_truncate_keeps(b, n) == b

SIO_truncate(b, n) ==
    [b EXCEPT !.content = SubSeq(b.content, 1, n)]

SIO_seek(b, p) == [b EXCEPT !.pos = p]

\* ---------------------------------------------------------------- sinks

Echo(text) == [k |-> "text", v |-> text]   \* buffered text, as drained
Msg(id) == [k |-> "msg", v |-> <<id>>]     \* a message of the harness itself
Out(text) == [k |-> "out", v |-> text]     \* program/debugger output in the log

LogAppend_drops(lg, e, ok) == lg

\* _log_to_file(s): appends, or fails and warns on the console instead
LogAppend(lg, e, ok) == IF ok THEN lg \o <<e>> ELSE lg
LogFallback(con, ok) == IF ok THEN con ELSE con \o <<Msg("log_write_error")>>

\* the texts echoed to the console, in order
RECURSIVE EchoedText(_)
EchoedText(con) ==
    IF con = <<>> THEN <<>>
    ELSE (IF Head(con).k = "text" THEN Head(con).v ELSE <<>>)
         \o EchoedText(Tail(con))

EchoCount(con) == Cardinality({i \in 1..Len(con) : con[i].k = "text"})

Drain_no_seek(b) == SIO_truncate(b, 0)

\* getvalue() is read before; truncate(0); seek(0)
Drain(b) == SIO_seek(SIO_truncate(b, 0), 0)

\* ---------------------------------------------------------------- readline

HasPrompt(text) == Contains(PROMPT, text)
HasBothAI(text) == Contains(AI_INTERACTION, text) /\ Contains(CODE_CONTEXT, text)

\* a line that, stripped, starts with '>' and names the harness's own file
SelfFrameLine(line) ==
    StartsWith(Strip(line), FRAME_MARK) /\ Contains(SELF_FILE, line)

HasSelfFrameLine(text) ==
    \E i \in 1..Len(SplitLines(text)) : SelfFrameLine(SplitLines(text)[i])

is_in_simplest_pal_frame_no_prompt(text) == HasSelfFrameLine(text)

is_in_simplest_pal_frame(text) == HasPrompt(text) /\ HasSelfFrameLine(text)

Decide_quit_first(text, qos) ==
    IF HasPrompt(text) /\ qos THEN "quit"
    ELSE IF HasBothAI(text) THEN "continue"
    ELSE IF is_in_simplest_pal_frame(text) THEN "up"
    ELSE IF HasPrompt(text) THEN "manual"
    ELSE "none"

Decide_up_first(text, qos) ==
    IF HasBothAI(text) THEN "continue"
    ELSE IF is_in_simplest_pal_frame(text) THEN "up"
    ELSE IF HasPrompt(text) /\ qos THEN "quit"
    ELSE IF HasPrompt(text) THEN "manual"
    ELSE "none"

Decide_no_up(text, qos) ==
    IF HasBothAI(text) THEN "continue"
    ELSE IF HasPrompt(text) /\ qos THEN "quit"
    ELSE IF HasPrompt(text) THEN "manual"
    ELSE "none"

Decide_active_quits(text, qos) ==
    IF HasBothAI(text) THEN "continue"
    ELSE IF HasPrompt(text) /\ (qos \/ is_debugging) THEN "quit"
    ELSE IF is_in_simplest_pal_frame(text) THEN "up"
    ELSE IF HasPrompt(text) THEN "manual"
    ELSE "none"

\* the branch readline takes, in the order of its if statements
Decide(text, qos) ==
    IF HasBothAI(text) THEN "continue"
    ELSE IF HasPrompt(text) /\ qos THEN "quit"
    ELSE IF is_in_simplest_pal_frame(text) THEN "up"
    ELSE IF HasPrompt(text) THEN "manual"
    ELSE "none"

Command(d) ==
    CASE d = "continue" -> CMD_C
      [] d = "quit" -> CMD_Q
      [] d = "up" -> CMD_U
      [] OTHER -> EMPTY

\* readline up to the blocking read: drain, echo, classify, answer or wait
Readline ==
    /\ rl_state # "waiting"
    /\ LET text == SIO_getvalue(output_buffer)
           d == Decide(text, quit_on_stop)
           con1 == console \o <<Echo(text)>>
       IN /\ output_buffer' = Drain(output_buffer)
          /\ current_buffered_output' = text
          /\ drained' = drained \o text
          /\ log' = CASE d = "none" -> log
                      [] d = "manual" -> LogAppend(log, Msg("waiting"), log_ok)
                      [] OTHER -> LogAppend(log, Msg(d), log_ok)
          /\ console' = CASE d = "none" -> con1
                          [] d = "manual" -> LogFallback(con1, log_ok)
                          [] OTHER -> LogFallback(con1, log_ok) \o <<Msg(d)>>
          /\ UNCHANGED log_ok
          /\ rl_state' = IF d = "manual" THEN "waiting" ELSE "returned"
          /\ rl_ret' = IF d = "manual" THEN rl_ret ELSE Command(d)
    /\ drains' = drains + 1
    /\ readlines' = readlines + 1
    /\ stdin_reads' = 0
    /\ user_command' = <<>>
    /\ UNCHANGED <<quit_on_stop, is_debugging, sys_stdout, remaining_output,
                   written>>

\* what original_stdin.readline() can deliver: a line, an unterminated last
\* line, or nothing at end of stream
LineChars == {"c"}
ManualLines ==
    {<<>>}
    \cup {body \o <<NL>> : body \in BoundedSeq(LineChars, MaxLine)}
    \cup (BoundedSeq(LineChars, MaxLine) \ {<<>>})

ManualCommand_strip(line) ==
    IF line = <<>> THEN CMD_Q ELSE Strip(line)

ManualCommand_eof_empty(line) == line

\* the command returned for the line read
ManualCommand(line) ==
    IF line = <<>> THEN CMD_Q ELSE line

\* readline from the blocking read on: the read returns a line or end of stream
ManualInput(line) ==
    /\ rl_state = "waiting"
    /\ user_command' = line
    /\ stdin_reads' = stdin_reads + 1
    /\ log' = IF line = <<>>
              THEN LogAppend(log, Msg("eof"), log_ok)
              ELSE LogAppend(log, [k |-> "input", v |-> Strip(line)], log_ok)
    /\ console' = LogFallback(console, log_ok)
    /\ UNCHANGED log_ok
    /\ rl_ret' = ManualCommand(line)
    /\ rl_state' = "returned"
    /\ UNCHANGED <<quit_on_stop, output_buffer, is_debugging, sys_stdout,
                   current_buffered_output, remaining_output, written, drained,
                   drains, readlines>>

\* the blocking read is interrupted: KeyboardInterrupt leaves readline
ManualInterrupt ==
    /\ rl_state = "waiting"
    /\ stdin_reads' = stdin_reads + 1
    /\ rl_state' = "raised"
    /\ UNCHANGED <<quit_on_stop, output_buffer, is_debugging, sys_stdout, log,
                   console, log_ok, rl_ret, current_buffered_output,
                   user_command, remaining_output, written, drained, drains,
                   readlines>>

\* ---------------------------------------------------------------- write, hooks

Write_echoes(s) ==
    /\ output_buffer' = SIO_write(output_buffer, s)
    /\ log' = LogAppend(log, Out(s), log_ok)
    /\ console' = LogFallback(console, log_ok) \o <<Echo(s)>>
    /\ UNCHANGED log_ok
    /\ written' = written \o s
    /\ UNCHANGED <<quit_on_stop, is_debugging, sys_stdout, rl_state, rl_ret,
                   current_buffered_output, user_command, stdin_reads,
                   remaining_output, drained, drains, readlines>>

\* write(s): to the buffer and to the log file, not to the console
Write(s) ==
    /\ output_buffer' = SIO_write(output_buffer, s)
    /\ log' = LogAppend(log, Out(s), log_ok)
    /\ console' = LogFallback(console, log_ok)
    /\ UNCHANGED log_ok
    /\ written' = written \o s
    /\ UNCHANGED <<quit_on_stop, is_debugging, sys_stdout, rl_state, rl_ret,
                   current_buffered_output, user_command, stdin_reads,
                   remaining_output, drained, drains, readlines>>

\* flush: the two original streams are flushed, no field is touched
flush == UNCHANGED hvars

\* enter_debugger_hook / exit_debugger_hook: the flag, the log, the console
Hook(flag, id) ==
    /\ is_debugging' = flag
    /\ log' = LogAppend(log, Msg(id), log_ok)
    /\ console' = LogFallback(console, log_ok) \o <<Msg(id)>>
    /\ UNCHANGED log_ok
    /\ UNCHANGED <<quit_on_stop, output_buffer, sys_stdout, rl_state, rl_ret,
                   current_buffered_output, user_command, stdin_reads,
                   remaining_output, written, drained, drains, readlines>>

enter_debugger_hook == Hook(TRUE, "activated")
exit_debugger_hook == Hook(FALSE, "deactivated")

\* ---------------------------------------------------------------- environment

\* what the target script and the debugger write in one call
Chunks == {<<"P">>, <<"AI", "CC">>, <<">", "F", "\n", "P">>}

\* traceback.print_exc(file=pdb_auto): names the files of the stack
TracebackText == <<"F", "\n">>

Running == pc = "attempt" /\ rl_state # "waiting"

EnvWrite ==
    /\ Running /\ ops < MaxOps
    /\ \E s \in Chunks : Write(s)
    /\ ops' = ops + 1
    /\ UNCHANGED <<pc, script_completed, script_force_quit, outcome, attempts,
                   depth, last_end, escaped>>

EnvReadline ==
    /\ Running /\ ops < MaxOps
    /\ Readline
    /\ ops' = ops + 1
    /\ UNCHANGED <<pc, script_completed, script_force_quit, outcome, attempts,
                   depth, last_end, escaped>>

EnvFlush ==
    /\ Running
    /\ flush
    /\ UNCHANGED dvars

EnvManualInput ==
    /\ pc = "attempt"
    /\ \E line \in ManualLines : ManualInput(line)
    /\ UNCHANGED dvars

EnvManualInterrupt ==
    /\ pc = "attempt"
    /\ ManualInterrupt
    /\ UNCHANGED dvars

\* set_trace_with_hooks is called: the enter hook, then the debugger's set_trace
TraceEnter ==
    /\ Running /\ ops < MaxOps /\ depth < MaxDepth
    /\ enter_debugger_hook
    /\ depth' = depth + 1
    /\ ops' = ops + 1
    /\ UNCHANGED <<pc, script_completed, script_force_quit, outcome, attempts,
                   last_end, escaped>>

\* the debugger's set_trace returns: the exit hook, and the wrapper returns
TraceReturn ==
    /\ Running /\ depth > 0
    /\ exit_debugger_hook
    /\ depth' = depth - 1
    /\ UNCHANGED <<pc, script_completed, script_force_quit, outcome, attempts,
                   last_end, escaped, ops>>

\* the debugger's set_trace raises, and the target script catches it further up:
\* the wrapper is left without its last statement
TraceRaise ==
    /\ Running /\ depth > 0
    /\ depth' = depth - 1
    /\ UNCHANGED <<hvars, pc, script_completed, script_force_quit, outcome,
                   attempts, last_end, escaped, ops>>

\* the log file stops taking appends (its disk fills, it is made read-only)
LogBreaks ==
    /\ log_ok /\ pc # "done"
    /\ log_ok' = FALSE
    /\ UNCHANGED <<quit_on_stop, output_buffer, is_debugging, sys_stdout, log,
                   console, rl_state, rl_ret, current_buffered_output,
                   user_command, stdin_reads, remaining_output, written,
                   drained, drains, readlines, dvars>>

\* ---------------------------------------------------------------- driver

AfterAttempt_no_stop(kind, active, sc, fq) ==
    LET fq1 == IF kind = "BdbQuit" THEN TRUE ELSE fq
        sc1 == IF kind \in {"return", "BdbQuit"} THEN TRUE ELSE sc
    IN [completed |-> IF active /\ ~fq1 THEN FALSE ELSE sc1,
        force_quit |-> fq1,
        outcome |-> CASE kind = "return" -> "CompletedNormally"
                      [] kind = "BdbQuit" -> "ExplicitlyQuit"
                      [] kind = "Exception" /\ ~active -> "CrashedUnsupervised"
                      [] OTHER -> "CrashedUnderDebugger"]

AfterAttempt_no_retry(kind, active, sc, fq) ==
    LET fq1 == IF kind = "BdbQuit" THEN TRUE ELSE fq
        sc1 == TRUE
    IN [completed |-> sc1,
        force_quit |-> fq1,
        outcome |-> CASE kind = "return" -> "CompletedNormally"
                      [] kind = "BdbQuit" -> "ExplicitlyQuit"
                      [] OTHER -> "CrashedUnsupervised"]

AfterAttempt_quit_retries(kind, active, sc, fq) ==
    LET fq1 == IF kind = "BdbQuit" THEN TRUE ELSE fq
        sc1 == IF kind \in {"return", "BdbQuit"} THEN TRUE
               ELSE IF ~active THEN TRUE ELSE sc
    IN [completed |-> IF active THEN FALSE ELSE sc1,
        force_quit |-> fq1,
        outcome |-> CASE kind = "return" -> "CompletedNormally"
                      [] kind = "BdbQuit" -> "ExplicitlyQuit"
                      [] kind = "Exception" /\ ~active -> "CrashedUnsupervised"
                      [] OTHER -> "CrashedUnderDebugger"]

\* the locals after one pass of the loop body: the try statement's branch for
\* how the attempt ended (return, BdbQuit, Exception), then the check of
\* is_debugging and script_force_quit
AfterAttempt(kind, active, sc, fq) ==
    LET fq1 == IF kind = "BdbQuit" THEN TRUE ELSE fq
        sc1 == IF kind \in {"return", "BdbQuit"} THEN TRUE
               ELSE IF ~active THEN TRUE ELSE sc
    IN [completed |-> IF active /\ ~fq1 THEN FALSE ELSE sc1,
        force_quit |-> fq1,
        outcome |-> CASE kind = "return" -> "CompletedNormally"
                      [] kind = "BdbQuit" -> "ExplicitlyQuit"
                      [] kind = "Exception" /\ ~active -> "CrashedUnsupervised"
                      [] OTHER -> "CrashedUnderDebugger"]

OutcomeMsg(o) ==
    CASE o = "CompletedNormally" -> Msg("completed_normally")
      [] o = "ExplicitlyQuit" -> Msg("explicitly_quit")
      [] o = "CrashedUnsupervised" -> Msg("unhandled_stopping")
      [] OTHER -> Msg("caught_by_pdb")

\* while not script_completed: runpy.run_path(...)
StartAttempt ==
    /\ pc = "loop" /\ ~script_completed
    /\ attempts < MaxAttempts
    /\ pc' = "attempt"
    /\ attempts' = attempts + 1
    /\ depth' = 0
    /\ UNCHANGED <<hvars, script_completed, script_force_quit, outcome,
                   last_end, escaped, ops>>

\* what every caught end of an attempt does to the driver's locals
Caught(kind) ==
    LET a == AfterAttempt(kind, is_debugging, script_completed,
                          script_force_quit)
    IN /\ script_completed' = a.completed
       /\ script_force_quit' = a.force_quit
       /\ outcome' = a.outcome
       /\ pc' = IF a.completed THEN "finally" ELSE "loop"
       /\ last_end' = [kind |-> kind, active |-> is_debugging, n |-> attempts]
       /\ depth' = 0
       /\ UNCHANGED <<attempts, escaped, ops>>

\* run_path returns
AttemptReturn ==
    /\ Running /\ depth = 0
    /\ Caught("return")
    /\ console' = console \o <<OutcomeMsg(outcome')>>
    /\ UNCHANGED <<quit_on_stop, output_buffer, is_debugging, sys_stdout, log,
                   log_ok, rl_state, rl_ret, current_buffered_output,
                   user_command, stdin_reads, remaining_output, written,
                   drained, drains, readlines>>

AttemptQuit_clears_flag ==
    /\ Running
    /\ Caught("BdbQuit")
    /\ console' = console \o <<OutcomeMsg(outcome')>>
    /\ is_debugging' = FALSE
    /\ UNCHANGED <<quit_on_stop, output_buffer, sys_stdout, log,
                   log_ok, rl_state, rl_ret, current_buffered_output,
                   user_command, stdin_reads, remaining_output, written,
                   drained, drains, readlines>>

\* run_path raises bdb.BdbQuit
AttemptQuit ==
    /\ Running
    /\ Caught("BdbQuit")
    /\ console' = console \o <<OutcomeMsg(outcome')>>
    /\ UNCHANGED <<quit_on_stop, output_buffer, is_debugging, sys_stdout, log,
                   log_ok, rl_state, rl_ret, current_buffered_output,
                   user_command, stdin_reads, remaining_output, written,
                   drained, drains, readlines>>

\* run_path raises another Exception: message, traceback through write, verdict
AttemptException ==
    /\ Running
    /\ Caught("Exception")
    /\ output_buffer' = SIO_write(output_buffer, TracebackText)
    /\ written' = written \o TracebackText
    /\ log' = LogAppend(log, Out(TracebackText), log_ok)
    /\ console' = LogFallback(console \o <<Msg("exception")>>, log_ok)
                  \o <<OutcomeMsg(outcome')>>
    /\ UNCHANGED log_ok
    /\ UNCHANGED <<quit_on_stop, is_debugging, sys_stdout, rl_state, rl_ret,
                   current_buffered_output, user_command, stdin_reads,
                   remaining_output, drained, drains, readlines>>

\* run_path raises what is no Exception (KeyboardInterrupt, SystemExit): no
\* except clause takes it, the finally clause runs and it leaves the function
AttemptInterrupt ==
    /\ pc = "attempt" /\ rl_state # "waiting"
    /\ pc' = "finally"
    /\ escaped' = TRUE
    /\ last_end' = [kind |-> "KeyboardInterrupt", active |-> is_debugging,
                    n |-> attempts]
    /\ outcome' = "none"
    /\ depth' = 0
    /\ UNCHANGED <<hvars, script_completed, script_force_quit, attempts, ops>>

Teardown_keeps_active ==
    /\ pc = "finally"
    /\ LET out == SIO_getvalue(output_buffer)
           con2 == IF out # <<>> THEN console \o <<Echo(out)>> ELSE console
       IN /\ output_buffer' = Drain(output_buffer)
          /\ remaining_output' = out
          /\ drained' = drained \o out
          /\ drains' = drains + 1
          /\ sys_stdout' = "original"
          /\ console' = con2 \o <<Msg("log_saved")>>
          /\ UNCHANGED <<is_debugging, log, log_ok>>
    /\ pc' = "done"
    /\ UNCHANGED <<quit_on_stop, rl_state, rl_ret, current_buffered_output,
                   user_command, stdin_reads, written, readlines,
                   script_completed, script_force_quit, outcome, attempts,
                   depth, last_end, escaped, ops>>

\* the finally clause: exit hook if still active, get_output, restore_io
Teardown ==
    /\ pc = "finally"
    /\ LET out == SIO_getvalue(output_buffer)
           con1 == IF is_debugging
                   THEN LogFallback(console, log_ok) \o <<Msg("deactivated")>>
                   ELSE console
           con2 == IF out # <<>> THEN con1 \o <<Echo(out)>> ELSE con1
       IN /\ is_debugging' = FALSE
          /\ log' = IF is_debugging
                    THEN LogAppend(log, Msg("deactivated"), log_ok) ELSE log
          /\ output_buffer' = Drain(output_buffer)
          /\ remaining_output' = out
          /\ drained' = drained \o out
          /\ drains' = drains + 1
          /\ sys_stdout' = "original"
          /\ console' = con2 \o <<Msg("log_saved")>>
          /\ UNCHANGED log_ok
    /\ pc' = "done"
    /\ UNCHANGED <<quit_on_stop, rl_state, rl_ret, current_buffered_output,
                   user_command, stdin_reads, written, readlines,
                   script_completed, script_force_quit, outcome, attempts,
                   depth, last_end, escaped, ops>>

\* ---------------------------------------------------------------- specifications

\* after PdbAutomation.__init__ and the set-up of simplest_pal_main
Init ==
    /\ quit_on_stop \in BOOLEAN
    /\ output_buffer = SIO_new
    /\ is_debugging = FALSE
    /\ sys_stdout = "pdb_auto"
    /\ log = <<Msg("log_started")>>
    /\ console = <<Msg("running_target")>>
    /\ log_ok = TRUE
    /\ rl_state = "idle"
    /\ rl_ret = <<>>
    /\ current_buffered_output = <<>>
    /\ user_command = <<>>
    /\ stdin_reads = 0
    /\ remaining_output = <<>>
    /\ written = <<>>
    /\ drained = <<>>
    /\ drains = 0
    /\ readlines = 0
    /\ pc = "loop"
    /\ script_completed = FALSE
    /\ script_force_quit = FALSE
    /\ outcome = "none"
    /\ attempts = 0
    /\ depth = 0
    /\ last_end = [kind |-> "none", active |-> FALSE, n |-> 0]
    /\ escaped = FALSE
    /\ ops = 0

Next ==
    \/ StartAttempt
    \/ EnvWrite
    \/ EnvReadline
    \/ EnvFlush
    \/ EnvManualInput
    \/ EnvManualInterrupt
    \/ TraceEnter
    \/ TraceReturn
    \/ TraceRaise
    \/ AttemptReturn
    \/ AttemptQuit
    \/ AttemptException
    \/ AttemptInterrupt
    \/ Teardown
    \/ LogBreaks

Spec == Init /\ [][Next]_vars

\* The classifier on every buffered text: the first attempt is running, the
\* text has been written, the session is active or idle, and the debugger asks
\* for one line.
InitRL ==
    /\ quit_on_stop \in BOOLEAN
    /\ is_debugging \in BOOLEAN
    /\ \E text \in BoundedSeq(Tok, MaxLen) :
        /\ output_buffer = SIO_write(SIO_new, text)
        /\ written = text
        /\ log = <<Msg("log_started"), Out(text)>>
    /\ sys_stdout = "pdb_auto"
    /\ console = <<Msg("running_target")>>
    /\ log_ok = TRUE
    /\ rl_state = "idle"
    /\ rl_ret = <<>>
    /\ current_buffered_output = <<>>
    /\ user_command = <<>>
    /\ stdin_reads = 0
    /\ remaining_output = <<>>
    /\ drained = <<>>
    /\ drains = 0
    /\ readlines = 0
    /\ pc = "attempt"
    /\ script_completed = FALSE
    /\ script_force_quit = FALSE
    /\ outcome = "none"
    /\ attempts = 1
    /\ depth = 0
    /\ last_end = [kind |-> "none", active |-> FALSE, n |-> 0]
    /\ escaped = FALSE
    /\ ops = 0

RLReadline ==
    /\ rl_state = "idle"
    /\ Readline
    /\ UNCHANGED dvars

NextRL ==
    \/ RLReadline
    \/ EnvManualInput
    \/ EnvManualInterrupt
    \/ LogBreaks

SpecRL == InitRL /\ [][NextRL]_vars

\* The driver loop and the session flag alone, for runs without end: what is
\* written, echoed and logged is left out (the log can still break), and the
\* attempts are counted up to MaxAttempts and no further, so that a loop that
\* never stops is a cycle.
lvars == <<quit_on_stop, output_buffer, log, console, log_ok, rl_state, rl_ret,
           current_buffered_output, user_command, stdin_reads,
           remaining_output, written, drained, drains, readlines, ops>>

\* while not script_completed: runpy.run_path(...)
LiveStartAttempt ==
    /\ pc = "loop" /\ ~script_completed
    /\ pc' = "attempt"
    /\ attempts' = IF attempts < MaxAttempts THEN attempts + 1 ELSE attempts
    /\ depth' = 0
    /\ UNCHANGED <<lvars, is_debugging, sys_stdout, script_completed,
                   script_force_quit, outcome, last_end, escaped>>

\* set_trace_with_hooks is called: the enter hook sets the flag
LiveTraceEnter ==
    /\ pc = "attempt" /\ depth < MaxDepth
    /\ is_debugging' = TRUE
    /\ depth' = depth + 1
    /\ UNCHANGED <<lvars, sys_stdout, pc, script_completed, script_force_quit,
                   outcome, attempts, last_end, escaped>>

\* the debugger's set_trace returns: the exit hook clears the flag
LiveTraceReturn ==
    /\ pc = "attempt" /\ depth > 0
    /\ is_debugging' = FALSE
    /\ depth' = depth - 1
    /\ UNCHANGED <<lvars, sys_stdout, pc, script_completed, script_force_quit,
                   outcome, attempts, last_end, escaped>>

\* the debugger's set_trace raises and the target script catches it
LiveTraceRaise ==
    /\ pc = "attempt" /\ depth > 0
    /\ depth' = depth - 1
    /\ UNCHANGED <<lvars, is_debugging, sys_stdout, pc, script_completed,
                   script_force_quit, outcome, attempts, last_end, escaped>>

\* run_path returns
LiveAttemptReturn ==
    /\ pc = "attempt" /\ depth = 0
    /\ Caught("return")
    /\ UNCHANGED <<lvars, is_debugging, sys_stdout>>

\* run_path raises bdb.BdbQuit
LiveAttemptQuit ==
    /\ pc = "attempt"
    /\ Caught("BdbQuit")
    /\ UNCHANGED <<lvars, is_debugging, sys_stdout>>

\* run_path raises another Exception
LiveAttemptException ==
    /\ pc = "attempt"
    /\ Caught("Exception")
    /\ UNCHANGED <<lvars, is_debugging, sys_stdout>>

\* the attempt ends by what is no Exception
LiveAttemptInterrupt ==
    /\ pc = "attempt"
    /\ pc' = "finally"
    /\ escaped' = TRUE
    /\ last_end' = [kind |-> "KeyboardInterrupt", active |-> is_debugging,
                    n |-> attempts]
    /\ outcome' = "none"
    /\ depth' = 0
    /\ UNCHANGED <<lvars, is_debugging, sys_stdout, script_completed,
                   script_force_quit, attempts>>

\* the finally clause: the flag is cleared, the streams are restored
LiveTeardown ==
    /\ pc = "finally"
    /\ is_debugging' = FALSE
    /\ sys_stdout' = "original"
    /\ pc' = "done"
    /\ UNCHANGED <<lvars, script_completed, script_force_quit, outcome,
                   attempts, depth, last_end, escaped>>

AttemptEnds ==
    \/ LiveAttemptReturn
    \/ LiveAttemptQuit
    \/ LiveAttemptException
    \/ LiveAttemptInterrupt

NextLive ==
    \/ LiveStartAttempt
    \/ LiveTraceEnter
    \/ LiveTraceReturn
    \/ LiveTraceRaise
    \/ LiveAttemptReturn
    \/ LiveAttemptQuit
    \/ LiveAttemptException
    \/ LiveAttemptInterrupt
    \/ LiveTeardown
    \/ LogBreaks

\* the loop goes on to its next pass, every attempt ends, the finally clause
\* runs; whether the debugger returns or raises is not the harness's to say
SpecLive ==
    /\ Init
    /\ [][NextLive]_vars
    /\ WF_vars(LiveStartAttempt)
    /\ WF_vars(AttemptEnds)
    /\ WF_vars(LiveTeardown)

\* ---------------------------------------------------------------- claims

Asked == readlines > 0        \* readline has drained a text
Drained == current_buffered_output

BothAIIn(text) ==
    Contains(<<"AI">>, text) /\ Contains(<<"CC">>, text)
PromptIn(text) == Contains(<<"P">>, text)
SelfFrameIn(text) ==
    \E i \in 1..Len(SplitLines(text)) :
        LET line == SplitLines(text)[i]
        IN /\ Strip(line) # <<>>
           /\ Head(Strip(line)) = ">"
           /\ Contains(<<"F">>, line)

\* C1: whenever the drained text holds both AI markers, readline has returned
\* "c\n" and has read nothing from the real input channel, whatever
\* quit_on_stop is and whatever other markers the text holds.
C1_BothMarkersContinue ==
    (Asked /\ BothAIIn(Drained)) =>
        /\ rl_state = "returned"
        /\ rl_ret = <<"c", "\n">>
        /\ stdin_reads = 0

W_C1 ==
    /\ Asked /\ BothAIIn(Drained) /\ PromptIn(Drained)
    /\ Contains(<<"HC">>, Drained)
    /\ quit_on_stop
    /\ rl_ret = <<"c", "\n">>

\* C2: whenever the drained text holds the prompt and not both AI markers, and
\* quit_on_stop is set, readline has returned "q\n" and has read nothing from
\* the real input channel, a self-frame line or not.
C2_PromptQuitOnStop ==
    (Asked /\ PromptIn(Drained) /\ ~BothAIIn(Drained) /\ quit_on_stop) =>
        /\ rl_state = "returned"
        /\ rl_ret = <<"q", "\n">>
        /\ stdin_reads = 0

W_C2 ==
    /\ Asked /\ PromptIn(Drained) /\ ~BothAIIn(Drained) /\ quit_on_stop
    /\ SelfFrameIn(Drained)
    /\ rl_ret = <<"q", "\n">>

\* C3: whenever the drained text holds the prompt and a self-frame line, not
\* both AI markers, and quit_on_stop is not set, readline has returned "u\n"
\* and has read nothing from the real input channel.
C3_SelfFrameStepUp ==
    (/\ Asked /\ PromptIn(Drained) /\ SelfFrameIn(Drained)
     /\ ~BothAIIn(Drained) /\ ~quit_on_stop) =>
        /\ rl_state = "returned"
        /\ rl_ret = <<"u", "\n">>
        /\ stdin_reads = 0

W_C3 ==
    /\ Asked /\ PromptIn(Drained) /\ SelfFrameIn(Drained)
    /\ ~BothAIIn(Drained) /\ ~quit_on_stop
    /\ Head(Drained) = " "
    /\ rl_ret = <<"u", "\n">>

ManualCase ==
    /\ Asked /\ PromptIn(Drained) /\ ~BothAIIn(Drained)
    /\ ~quit_on_stop /\ ~SelfFrameIn(Drained)

\* C4: when the drained text holds the prompt and none of rules 1-3 applies,
\* readline goes to the real input channel: it has read nothing while it
\* waits, and once it has returned it has read exactly one line and returned
\* that line as it is, or "q\n" when the read gave end of stream.
C4_ManualMode ==
    ManualCase =>
        /\ rl_state \in {"waiting", "returned", "raised"}
        /\ rl_state = "waiting" => stdin_reads = 0
        /\ rl_state = "returned" =>
            /\ stdin_reads = 1
            /\ user_command # <<>> => rl_ret = user_command
            /\ user_command = <<>> => rl_ret = <<"q", "\n">>

W_C4 ==
    /\ ManualCase /\ rl_state = "returned"
    /\ user_command = <<>> /\ rl_ret = <<"q", "\n">>

\* C5 as stated: every value readline returns ends with a newline.
C5_Original ==
    (Asked /\ rl_state = "returned") => NewlineTerminated(rl_ret)

NoPromptCase == ~PromptIn(Drained) /\ ~BothAIIn(Drained)
UnterminatedLineCase ==
    /\ ManualCase /\ stdin_reads = 1
    /\ user_command # <<>> /\ ~NewlineTerminated(user_command)

\* C5, amended: a value readline returns ends with a newline except in two
\* cases: the empty string returned when the text holds neither the prompt nor
\* both AI markers, and a manual line that the real input channel delivered
\* without a newline (the last line of the stream).
C5_NewlineExceptEmptyAndRawLine ==
    (Asked /\ rl_state = "returned") =>
        (NewlineTerminated(rl_ret) <=> ~(NoPromptCase \/ UnterminatedLineCase))

W_C5 ==
    /\ ManualCase /\ rl_state = "returned"
    /\ user_command = <<"c", "\n">> /\ rl_ret = user_command

\* the value the drain of this step returns
DrainResult == IF readlines' = readlines + 1
               THEN current_buffered_output' ELSE remaining_output'

\* C6: every drain (by readline or by get_output) returns exactly the texts
\* written since the drain before it, in order, and leaves the buffer empty;
\* so all drain results followed by the buffer are, at any time, all the text
\* written.
C6_DrainExact ==
    /\ [](drained \o SIO_getvalue(output_buffer) = written)
    /\ [][drains' = drains + 1 =>
            /\ DrainResult = SubSeq(written, Len(drained) + 1, Len(written))
            /\ SIO_getvalue(output_buffer') = <<>>
            /\ drained' = drained \o DrainResult]_vars

W_C6 ==
    /\ drains = 3 /\ readlines = 2
    /\ current_buffered_output = <<>>
    /\ drained # <<>> /\ remaining_output # <<>>
    /\ Len(remaining_output) < Len(drained)

\* C7: the console gets written text from drains only: what has been echoed is
\* a prefix of what was written, one echo per readline invocation (and one for
\* a non-empty drain at teardown), and while readline waits for the real input
\* channel everything written has been echoed.
C7_EchoOnDrainInOrder ==
    /\ Len(EchoedText(console)) <= Len(written)
    /\ EchoedText(console) = SubSeq(written, 1, Len(EchoedText(console)))
    /\ EchoCount(console) =
           readlines + (IF pc = "done" /\ remaining_output # <<>> THEN 1 ELSE 0)
    /\ rl_state = "waiting" => EchoedText(console) = written

W_C7 ==
    /\ rl_state = "waiting" /\ attempts = 2
    /\ written = <<"F", "\n", "P">>
    /\ console[Len(console)] = Echo(<<"F", "\n", "P">>)

IdleCrash == last_end.kind = "Exception" /\ ~last_end.active
ActiveCrash == last_end.kind = "Exception" /\ last_end.active

\* C8: after an attempt that ended with an Exception other than BdbQuit while
\* the session was idle, the outcome is CrashedUnsupervised, the loop has
\* ended and no further attempt has started.
C8_IdleCrashStops ==
    IdleCrash =>
        /\ outcome = "CrashedUnsupervised"
        /\ script_completed
        /\ pc \in {"finally", "done"}
        /\ attempts = last_end.n

W_C8 == IdleCrash /\ pc = "done" /\ attempts = 2

\* C9: after an attempt that ended with an Exception other than BdbQuit while
\* the session was active, the loop has not ended (the outcome is
\* CrashedUnderDebugger, not a terminal one), and the driver's next step is
\* another run of the target script.
C9_ActiveCrashRetries ==
    /\ []((ActiveCrash /\ attempts = last_end.n) =>
            /\ pc = "loop"
            /\ ~script_completed
            /\ outcome = "CrashedUnderDebugger")
    /\ [][(ActiveCrash /\ attempts = last_end.n) =>
            \/ pc' = "attempt" /\ attempts' = attempts + 1
            \/ UNCHANGED <<pc, attempts, outcome, script_completed>>]_vars

W_C9 == ActiveCrash /\ attempts = last_end.n + 1 /\ pc = "attempt"

\* C10: after an attempt that ended with BdbQuit, script_force_quit is set,
\* the loop has ended with outcome ExplicitlyQuit and no further attempt has
\* started, the session active or not.
C10_QuitStops ==
    last_end.kind = "BdbQuit" =>
        /\ script_force_quit
        /\ script_completed
        /\ outcome = "ExplicitlyQuit"
        /\ pc \in {"finally", "done"}
        /\ attempts = last_end.n

W_C10 ==
    /\ last_end.kind = "BdbQuit" /\ last_end.active
    /\ stdin_reads = 1 /\ user_command = <<>> /\ rl_ret = <<"q", "\n">>
    /\ pc = "done"

\* C11: whenever control leaves set_trace_with_hooks (one frame of it less on
\* the stack), by return or by an exception, the session is idle.
C11_WrapperAlwaysExits ==
    [][depth' < depth => ~is_debugging']_vars

CountMsg(con, id) == Cardinality({i \in 1..Len(con) : con[i] = Msg(id)})

\* C13: every way out of the loop goes through the finally clause, whether
\* the loop ended or an exception is on its way out; the clause calls the exit
\* hook exactly when the session is still active, then drains the buffer (and
\* echoes what was left), then restores sys.stdout and sys.stderr; after it
\* the session is idle, the buffer is empty and the original streams are back.
C13_TeardownRestores ==
    /\ [](pc = "done" =>
            /\ ~is_debugging
            /\ SIO_getvalue(output_buffer) = <<>>
            /\ sys_stdout = "original")
    /\ [](pc # "done" => sys_stdout = "pdb_auto")
    /\ [][pc' # pc /\ pc' \notin {"loop", "attempt"} =>
            \/ pc \in {"loop", "attempt"} /\ pc' = "finally"
            \/ /\ pc = "finally" /\ pc' = "done"
               /\ CountMsg(console', "deactivated") =
                      CountMsg(console, "deactivated")
                      + (IF is_debugging THEN 1 ELSE 0)
               /\ remaining_output' = SIO_getvalue(output_buffer)
               /\ LET n == Len(console')
                      e == IF remaining_output' # <<>> THEN 1 ELSE 0
                  IN /\ console'[n] = Msg("log_saved")
                     /\ e = 1 => console'[n - 1] = Echo(remaining_output')
                     /\ is_debugging =>
                            console'[n - 1 - e] = Msg("deactivated")]_vars

W_C13 ==
    /\ pc = "done" /\ escaped /\ last_end.active
    /\ remaining_output # <<>>
    /\ CountMsg(console, "deactivated") = 1

\* C14: every fault raised during an attempt, an operator interrupt included,
\* is caught at the top of the attempt: nothing propagates past the driver.
C14_NoFaultEscapes == ~escaped

\* C16: once an attempt has ended the driver starts another one if and only
\* if the session was active at the end of the attempt and the attempt did
\* not end on the debugger's quit signal.
C16_RetryIffActiveNotQuit ==
    (last_end.kind # "none" /\ last_end.n = attempts /\ pc # "attempt") =>
        ((pc = "loop") <=> (last_end.active /\ last_end.kind # "BdbQuit"))

\* C15: the session is idle at creation; it becomes active only in a step
\* that is the enter hook (which announces the activation) and idle only in a
\* step that is the exit hook (which announces the deactivation); write,
\* flush, readline, the manual read, get_output, restore_io and the driver's
\* handling of how an attempt ended leave it as it is.
C15_StateOnlyByHooks ==
    /\ (attempts = 0 => ~is_debugging)
    /\ [][/\ (~is_debugging /\ is_debugging') =>
                CountMsg(console', "activated") =
                    CountMsg(console, "activated") + 1
          /\ (is_debugging /\ ~is_debugging') =>
                CountMsg(console', "deactivated") =
                    CountMsg(console, "deactivated") + 1
          /\ (CountMsg(console', "activated") = CountMsg(console, "activated")
              /\ CountMsg(console', "deactivated") =
                    CountMsg(console, "deactivated")) =>
                is_debugging' = is_debugging
          /\ (\/ written' # written
              \/ readlines' # readlines
              \/ stdin_reads' # stdin_reads
              \/ rl_state' # rl_state
              \/ last_end' # last_end
              \/ pc # "finally" /\ drains' # drains) =>
                is_debugging' = is_debugging]_vars

W_C15 ==
    /\ ~is_debugging
    /\ CountMsg(console, "activated") = 1
    /\ CountMsg(console, "deactivated") = 1
    /\ readlines >= 1 /\ drains >= 1 /\ written # <<>>
    /\ last_end.kind = "return"

\* C20: once the finally clause has run, the texts echoed to the console by
\* the drains (those of readline and the last one of the finally clause),
\* joined in order, are exactly all the text that was written: nothing is
\* missing, nothing is echoed twice, nothing is out of order.
C20_EchoIsAllWritten ==
    pc = "done" => EchoedText(console) = written

W_C20 ==
    /\ pc = "done"
    /\ readlines >= 1
    /\ remaining_output # <<>>
    /\ Len(written) > Len(remaining_output)
    /\ EchoCount(console) >= 2

\* C18: when the drained text holds no prompt and not both AI markers,
\* readline has returned the empty string and has read nothing from the real
\* input channel, whatever quit_on_stop is and whether or not the text shows
\* a frame of the harness's own file.
C18_NoPromptEmpty ==
    (Asked /\ ~PromptIn(Drained) /\ ~BothAIIn(Drained)) =>
        /\ rl_state = "returned"
        /\ rl_ret = <<>>
        /\ stdin_reads = 0

W_C18 ==
    /\ Asked /\ ~PromptIn(Drained) /\ ~BothAIIn(Drained)
    /\ SelfFrameIn(Drained) /\ quit_on_stop
    /\ Contains(<<"AI">>, Drained)
    /\ rl_state = "returned" /\ rl_ret = <<>>

\* a step in which a readline invocation returns a value
ReturnStep ==
    /\ rl_state' = "returned"
    /\ readlines' # readlines \/ stdin_reads' # stdin_reads
AutomaticReturn == ReturnStep /\ readlines' # readlines
\* the log entry that names the decision returned by the step
DecisionEntry ==
    IF readlines' # readlines
    THEN (CASE rl_ret' = <<"c", "\n">> -> Msg("continue")
            [] rl_ret' = <<"q", "\n">> -> Msg("quit")
            [] rl_ret' = <<"u", "\n">> -> Msg("up")
            [] OTHER -> Msg("none"))
    ELSE IF user_command' = <<>> THEN Msg("eof")
    ELSE [k |-> "input", v |-> Strip(user_command')]

\* C17 as stated: every step in which readline returns a value appends the
\* log entry of the decision returned.
C17_Original ==
    [][ReturnStep => log' = log \o <<DecisionEntry>>]_vars

\* C17, amended: a readline that returns a command (continue, quit, step-up,
\* the manual line, or the quit substituted at end of stream) has handed the
\* entry of that decision to the log before it returns; the entry is in the
\* log when the log takes the write, and otherwise the log is as it was and
\* a warning is on the console. A readline that returns the empty string
\* (no prompt, not both AI markers) writes no log entry at all.
C17_DecisionLoggedUnlessEmptyOrLogFails ==
    [][ReturnStep =>
        IF AutomaticReturn /\ rl_ret' = <<>>
        THEN log' = log
        ELSE IF log_ok
        THEN log' = log \o <<DecisionEntry>>
        ELSE /\ log' = log
             /\ Len(console') > Len(console)
             /\ console'[Len(console) + (IF AutomaticReturn THEN 2 ELSE 1)]
                    = Msg("log_write_error")]_vars

W_C17 ==
    /\ Asked /\ rl_state = "returned" /\ stdin_reads = 1
    /\ user_command = <<"c", "\n">> /\ rl_ret = user_command
    /\ log_ok
    /\ log[Len(log)] = [k |-> "input", v |-> <<"c">>]
    /\ log[Len(log) - 1] = Msg("waiting")

\* the branch the last readline invocation took, as seen from outside
ActualDecision ==
    IF rl_state \in {"waiting", "raised"} \/ stdin_reads > 0 THEN "manual"
    ELSE CASE rl_ret = <<"c", "\n">> -> "continue"
           [] rl_ret = <<"q", "\n">> -> "quit"
           [] rl_ret = <<"u", "\n">> -> "up"
           [] OTHER -> "none"

\* the branch as a function of the text and the quit-on-stop flag alone
ExpectedDecision(text, qos) ==
    IF BothAIIn(text) THEN "continue"
    ELSE IF PromptIn(text) /\ qos THEN "quit"
    ELSE IF PromptIn(text) /\ SelfFrameIn(text) THEN "up"
    ELSE IF PromptIn(text) THEN "manual"
    ELSE "none"

\* the texts that differ from t by one "Human Consultation Requested" marker
\* added anywhere or removed
HCVariants(t) ==
    {SubSeq(t, 1, i) \o <<"HC">> \o SubSeq(t, i + 1, Len(t)) : i \in 0..Len(t)}
    \cup {SubSeq(t, 1, i - 1) \o SubSeq(t, i + 1, Len(t)) :
            i \in {j \in 1..Len(t) : t[j] = "HC"}}

\* the value returned in manual mode is fixed by the line read alone
ManualByLineOnly ==
    (stdin_reads' # stdin_reads /\ rl_state' = "returned") =>
        rl_ret' = (IF user_command' = <<>> THEN <<"q", "\n">>
                   ELSE user_command')

C12_ActiveLeadsToIdle == is_debugging ~> ~is_debugging

====
